---------------------------- MODULE Spec2Model ----------------------------
(***************************************************************************)
(* A model of flashcard.py: deck discovery and loading (main,              *)
(* discover_deck_files, load_deck, _normalize_deck_from_data,              *)
(* coerce_card), the menus (choose_deck, choose_mode, choose_count), the   *)
(* quiz session (run_quiz) and the two audit logs (log_answer).  Spec is    *)
(* a run of main, SpecLoader its startup on a directory of one file, and   *)
(* SpecCalls single calls of obfuscate_line, normalize_answer, the grading *)
(* expression of run_quiz and the text of the lines log_answer writes.     *)
(* SpecStart is the startup followed by the deck and mode menus, SpecLive  *)
(* a run of main in which the operator goes on answering.                  *)
(*                                                                         *)
(* Python strings are sequences of code points.  A parsed YAML value is a  *)
(* record with a field tag:                                                *)
(*   [tag |-> "null"]                 None                                 *)
(*   [tag |-> "str",  s |-> <<..>>]   a string                             *)
(*   [tag |-> "int",  n |-> 7]        an integer                           *)
(*   [tag |-> "list", items |-> <<..>>]  a list of values                  *)
(*   [tag |-> "dict", d |-> f]        a mapping, f a function on its keys  *)
(***************************************************************************)
EXTENDS Integers, Sequences, FiniteSets, TLC

(***************************************************************************)
(* Bounds of the model.                                                    *)
(***************************************************************************)
MaxFiles == 2       \* directory entries in the data directory
MaxSessions == 2    \* quiz sessions started in one run of main
MaxLogged == 2      \* items graded in one run of main

(***************************************************************************)
(* Configuration constants of flashcard.py.                                *)
(***************************************************************************)
MODE_Q_TO_TERM == 1
MODE_TERM_TO_DEF == 2
MODE_MIXED == 3

\* SUPPORTED_EXTS = (".yml", ".yaml")
SUPPORTED_EXTS == { <<46, 121, 109, 108>>, <<46, 121, 97, 109, 108>> }

(***************************************************************************)
(* Python string primitives.                                               *)
(***************************************************************************)
\* str.isspace for one character.
IsSpace(c) ==
    \/ c \in 9..13
    \/ c \in 28..32
    \/ c \in {133, 160, 5760, 8232, 8233, 8239, 8287, 12288}
    \/ c \in 8192..8202

\* str.lower for one character (ASCII and Latin-1 capitals).
LowerChar(c) ==
    IF c \in 65..90 THEN c + 32
    ELSE IF c \in 192..222 /\ c # 215 THEN c + 32
    ELSE c

\* s.lower()
Lower(s) == [i \in 1..Len(s) |-> LowerChar(s[i])]

\* s.strip()
Strip(s) ==
    LET keep == {i \in 1..Len(s) : ~IsSpace(s[i])}
    IN  IF keep = {} THEN <<>>
        ELSE LET lo == CHOOSE i \in keep : \A j \in keep : i <= j
                 hi == CHOOSE i \in keep : \A j \in keep : j <= i
             IN  SubSeq(s, lo, hi)

\* s.split(): the maximal runs of non-whitespace characters, in order.
RECURSIVE Split(_)
Split(s) ==
    LET t == Strip(s)
    IN  IF t = <<>> THEN <<>>
        ELSE LET sp == {i \in 1..Len(t) : IsSpace(t[i])}
             IN  IF sp = {} THEN <<t>>
                 ELSE LET k == CHOOSE i \in sp : \A j \in sp : i <= j
                      IN  <<SubSeq(t, 1, k - 1)>> \o Split(SubSeq(t, k + 1, Len(t)))

\* " ".join(words)
RECURSIVE JoinSpace(_)
JoinSpace(words) ==
    IF words = <<>> THEN <<>>
    ELSE IF Len(words) = 1 THEN words[1]
    ELSE words[1] \o <<32>> \o JoinSpace(Tail(words))

\* s.endswith(suf)
EndsWith(s, suf) ==
    /\ Len(suf) <= Len(s)
    /\ SubSeq(s, Len(s) - Len(suf) + 1, Len(s)) = suf

\* s.lower().endswith(SUPPORTED_EXTS)
HasSupportedExt(s) == \E e \in SUPPORTED_EXTS : EndsWith(Lower(s), e)

\* Decimal digits of a natural number.
RECURSIVE Digits(_)
Digits(n) ==
    IF n < 10 THEN <<48 + n>> ELSE Digits(n \div 10) \o <<48 + (n % 10)>>

\* Python's truth value of a parsed value.
Truthy(v) ==
    CASE v.tag = "null" -> FALSE
      [] v.tag = "str"  -> v.s # <<>>
      [] v.tag = "int"  -> v.n # 0
      [] v.tag = "list" -> v.items # <<>>
      [] v.tag = "dict" -> DOMAIN v.d # {}

\* repr() of a value inside a list, and ", ".join of the reprs.
RECURSIVE PyStr(_), ReprItems(_)
ReprItems(items) ==
    IF items = <<>> THEN <<>>
    ELSE IF Len(items) = 1 THEN PyStr(items[1])
    ELSE PyStr(items[1]) \o <<44, 32>> \o ReprItems(Tail(items))

\* str(v) for None, strings, non-negative integers and lists of those
\* (the elements of a list are shown by repr: a string in quotes).
PyStr(v) ==
    CASE v.tag = "null" -> <<78, 111, 110, 101>>                \* "None"
      [] v.tag = "str"  -> v.s
      [] v.tag = "int"  -> Digits(v.n)
      [] v.tag = "list" ->
            <<91>> \o
            ReprItems([i \in 1..Len(v.items) |->
                         IF v.items[i].tag = "str"
                         THEN [tag |-> "str", s |-> <<39>> \o v.items[i].s \o <<39>>]
                         ELSE v.items[i]]) \o
            <<93>>
      [] v.tag = "dict" -> <<123, 125>>                         \* "{}"

Str(s) == [tag |-> "str", s |-> s]
None == [tag |-> "null"]

\* raw.get(key, "") of a mapping.
Get(raw, key) == IF key \in DOMAIN raw.d THEN raw.d[key] ELSE Str(<<>>)

(***************************************************************************)
(* Deck loading.                                                           *)
(***************************************************************************)
\* coerce_card(raw)
coerce_card(raw) ==
    IF raw.tag # "dict"
    THEN [term |-> PyStr(raw), full_def |-> <<>>, quiz_question |-> <<>>]
    ELSE [term          |-> Strip(PyStr(Get(raw, "term"))),
          full_def      |-> Strip(PyStr(Get(raw, "full_def"))),
          quiz_question |-> Strip(PyStr(Get(raw, "quiz_question")))]

\* os.path.splitext(os.path.basename(filename))[0]: the name up to its last
\* dot, where leading dots do not start an extension.
BaseTitle(name) ==
    LET lead == {i \in 1..Len(name) : \A j \in 1..i : name[j] = 46}
        dots == {i \in 1..Len(name) : name[i] = 46 /\ i \notin lead}
    IN  IF dots = {} THEN name
        ELSE SubSeq(name, 1, (CHOOSE i \in dots : \A j \in dots : j <= i) - 1)

\* _normalize_deck_from_data with data.get("title", base_title): an empty
\* title is kept.
_normalize_deck_KeepEmptyTitle(data, filename) ==
    LET base_title == Str(BaseTitle(filename))
    IN  IF data.tag = "null"
        THEN [title |-> base_title, cards |-> <<>>, source_file |-> filename]
        ELSE IF /\ data.tag = "dict"
                /\ "cards" \in DOMAIN data.d
                /\ data.d["cards"].tag = "list"
        THEN [title |-> IF "title" \in DOMAIN data.d
                        THEN data.d["title"] ELSE base_title,
              cards |-> [i \in 1..Len(data.d["cards"].items) |->
                            coerce_card(data.d["cards"].items[i])],
              source_file |-> filename]
        ELSE IF data.tag = "list"
        THEN [title |-> base_title,
              cards |-> [i \in 1..Len(data.items) |-> coerce_card(data.items[i])],
              source_file |-> filename]
        ELSE [title |-> base_title, cards |-> <<>>, source_file |-> filename]

\* _normalize_deck_from_data(data, filename)
_normalize_deck_from_data(data, filename) ==
    LET base_title == Str(BaseTitle(filename))
    IN  IF data.tag = "null"
        THEN [title |-> base_title, cards |-> <<>>, source_file |-> filename]
        ELSE IF /\ data.tag = "dict"
                /\ "cards" \in DOMAIN data.d
                /\ data.d["cards"].tag = "list"
        THEN [title |-> IF "title" \in DOMAIN data.d /\ Truthy(data.d["title"])
                        THEN data.d["title"] ELSE base_title,
              cards |-> [i \in 1..Len(data.d["cards"].items) |->
                            coerce_card(data.d["cards"].items[i])],
              source_file |-> filename]
        ELSE IF data.tag = "list"
        THEN [title |-> base_title,
              cards |-> [i \in 1..Len(data.items) |-> coerce_card(data.items[i])],
              source_file |-> filename]
        ELSE [title |-> base_title, cards |-> <<>>, source_file |-> filename]


(***************************************************************************)
(* The data directory and the operator's terminal.                         *)
(***************************************************************************)
\* A directory entry: its name, what reading and parsing it does ("ok" or
\* the exception open()/yaml.safe_load raises) and, when ok, the parsed value.
Entry(name, read, data) == [name |-> name, read |-> read, data |-> data]

Dict(f) == [tag |-> "dict", d |-> f]
List(items) == [tag |-> "list", items |-> items]
IntV(n) == [tag |-> "int", n |-> n]

\* The directory entries of the model.  Names are distinct after lower-casing.
FileEntries ==
    { \* a.yml: {title: "T", cards: [{term: "Y", full_def: "d", quiz_question: "k"},
      \*                             {full_def: "d"}, "q"]}
      Entry(<<97, 46, 121, 109, 108>>, "ok",
            Dict([title |-> Str(<<84>>),
                  cards |-> List(<< Dict([term |-> Str(<<89>>),
                                          full_def |-> Str(<<100>>),
                                          quiz_question |-> Str(<<107>>)]),
                                     Dict([full_def |-> Str(<<100>>)]),
                                     Str(<<113>>) >>)])),
      \* B.YAML: [{full_def: null}, ""]
      Entry(<<66, 46, 89, 65, 77, 76>>, "ok",
            List(<< Dict([full_def |-> None]), Str(<<>>) >>)),
      \* e.yml: an empty file
      Entry(<<101, 46, 121, 109, 108>>, "ok", None),
      \* h.yml: not valid YAML
      Entry(<<104, 46, 121, 109, 108>>, "YAMLError", None),
      \* j.yml: unreadable (PermissionError), a directory (IsADirectoryError)
      \* or not UTF-8 (UnicodeDecodeError): an OSError or ValueError
      Entry(<<106, 46, 121, 109, 108>>, "OtherError", None),
      \* k.txt: not a deck file
      Entry(<<107, 46, 116, 120, 116>>, "ok", List(<<Str(<<89>>)>>)) }

\* The states of the data directory: missing, or holding some entries.
DataDirs ==
    { [isdir |-> FALSE, entries |-> {}] } \cup
    { [isdir |-> TRUE, entries |-> es] :
        es \in {es \in SUBSET FileEntries : Cardinality(es) <= MaxFiles} }

\* Card entries of the deck files used to exercise the loader.
EntryFull ==        \* {term: "Y", full_def: "d", quiz_question: "k"}
    Dict([term |-> Str(<<89>>), full_def |-> Str(<<100>>),
          quiz_question |-> Str(<<107>>)])
EntryNoTerm ==      \* {full_def: "d"}
    Dict([full_def |-> Str(<<100>>)])
EntryWrongTypes ==  \* {term: null, full_def: 2, quiz_question: [1, "a"]}
    Dict([term |-> None, full_def |-> IntV(2),
          quiz_question |-> List(<<IntV(1), Str(<<97>>)>>)])
EntryPadded ==      \* {term: " Y ", full_def: "  "}
    Dict([term |-> Str(<<32, 89, 32>>), full_def |-> Str(<<32, 32>>)])

\* Parsed contents of the deck files used to exercise the loader.
LoaderData ==
    { None,                                              \* an empty file
      IntV(2),                                           \* 2
      Str(<<120>>),                                      \* "x"
      List(<<>>),                                        \* []
      List(<<EntryFull, EntryNoTerm, Str(<<113>>)>>),
      List(<<None, IntV(2), List(<<IntV(1)>>), Str(<<>>)>>),  \* [null, 2, [1], ""]
      Dict(<<>>),                                        \* {}
      Dict([title |-> Str(<<84>>)]),                     \* {title: "T"}
      Dict([title |-> Str(<<84>>), cards |-> IntV(2)]),  \* {title: "T", cards: 2}
      Dict([title |-> Str(<<84>>), cards |-> List(<<EntryFull, EntryWrongTypes>>)]),
      Dict([title |-> Str(<<>>),
            cards |-> List(<<EntryPadded, EntryNoTerm, Str(<<113>>)>>)]),
      Dict([cards |-> List(<<EntryFull>>)]),
      Dict([cards |-> List(<<>>)]),
      Dict([title |-> None, cards |-> List(<<EntryFull>>)]),
      Dict([title |-> IntV(5), cards |-> List(<<EntryFull>>)]) }

\* File names used to exercise the loader.
LoaderNames ==
    { <<97, 46, 121, 109, 108>>,                \* a.yml
      <<66, 46, 89, 65, 77, 76>>,               \* B.YAML
      <<99, 46, 100, 46, 121, 109, 108>>,       \* c.d.yml
      <<46, 121, 109, 108>>,                    \* .yml
      <<107, 46, 116, 120, 116>> }              \* k.txt

\* Data directories holding one file: any name with any content, or with a
\* failure to read or parse it.
LoaderDirs ==
    { [isdir |-> TRUE, entries |-> {Entry(n, "ok", d)}] :
        n \in LoaderNames, d \in LoaderData } \cup
    { [isdir |-> TRUE, entries |-> {Entry(n, r, None)}] :
        n \in LoaderNames, r \in {"YAMLError", "FileNotFoundError", "OtherError"} }

\* The lines the operator can type at a prompt.
Lines ==
    { <<>>,              \* ""
      <<113>>,           \* "q"
      <<32, 81>>,        \* " Q"
      <<121>>,           \* "y"
      <<110>>,           \* "n"
      <<49>>,            \* "1"
      <<50>>,            \* "2"
      <<51>> }           \* "3"

\* The lines the operator can type as the answer of a Question -> Term item.
AnswerLines ==
    { <<113>>,           \* "q"
      <<32, 81>>,        \* " Q"
      <<32, 89>> }       \* " Y"

(***************************************************************************)
(* State.                                                                  *)
(***************************************************************************)
VARIABLES
    dataDir,     \* the data directory: [isdir, entries]
    pc,          \* where the program is: "start", "load", a prompt it waits
                 \* at, a step of log_answer, or "exited"
    deck_files,  \* main: the discovered file names, sorted
    loadIdx,     \* main: how many of deck_files the loading loop has handled
    decks,       \* main: the deck registry
    diagnostics, \* the file names load_deck printed a "[!]" line for
    exit,        \* [code, msg]: exit status and last message, code -1 while running
    sessions,    \* how many times main called run_quiz
    deck,        \* main: index in decks of the chosen deck, 0 when none is
                 \* chosen (before the choice and after run_quiz returned)
    mode,        \* main: the chosen session mode, 0 when none is chosen
    cards,       \* run_quiz: the filtered, shuffled and truncated cards
    idx,         \* run_quiz: index of the item being presented
    this_mode,   \* run_quiz: effective mode of the item being presented
    correct,     \* run_quiz: correct count
    wrong,       \* run_quiz: missed list of <<card, user answer>>
    graded,      \* history: items of this session for which is_correct was set
    logStart,    \* history: lengths of <<answers.log, stamp.log>> when the
                 \* run_quiz call in progress began
    rec,         \* log_answer: the record being written
    results,     \* the "Score:" line of this session: [printed, correct, total, pct]
    answersLog,  \* data/answers.log: the fields of the lines appended, oldest
                 \* first (without the timestamp, which the program never reads)
    stampLog,    \* data/stamp.log: for each line appended, the record whose
                 \* plain line was obfuscated, oldest first
    cancelTyped, \* history: the line last read at a prompt of an item was
                 \* the cancel token
    call         \* a function called on its own, outside main:
                 \* [fn, args, done, ret]; NoCall while main runs

vars == <<dataDir, pc, deck_files, loadIdx, decks, diagnostics, exit, sessions,
          deck, mode, cards, idx, this_mode, correct, wrong, graded, logStart,
          rec, results, answersLog, stampLog, cancelTyped, call>>

startupVars == <<deck_files, loadIdx, decks, diagnostics>>
quizVars == <<cards, idx, this_mode, correct, wrong, graded, logStart, rec,
             results>>
logVars == <<answersLog, stampLog>>
sessionVars == <<deck, mode, quizVars, cancelTyped>>

NoRec == [deck_title |-> Str(<<>>), mode |-> "", term |-> <<>>,
          user_ans |-> <<>>, correct |-> FALSE]
NoResults == [printed |-> FALSE, correct |-> 0, total |-> 0, pct |-> 0]
Running == [code |-> -1, msg |-> ""]
NoCall == [fn |-> "", args |-> <<>>, done |-> FALSE, ret |-> <<>>]

\* The prompts at which the program waits for a line of input.
MenuPrompts == {"choose_deck", "choose_mode", "choose_count", "again"}
ItemPrompts == {"answer", "reveal", "judge"}
Prompts == MenuPrompts \cup ItemPrompts \cup {"wait_key"}

\* The state when main starts, for a set of possible data directories.
InitIn(dirs) ==
    /\ dataDir \in dirs
    /\ pc = "start"
    /\ deck_files = <<>>
    /\ loadIdx = 0
    /\ decks = <<>>
    /\ diagnostics = <<>>
    /\ exit = Running
    /\ sessions = 0
    /\ deck = 0
    /\ mode = 0
    /\ cards = <<>>
    /\ idx = 0
    /\ this_mode = 0
    /\ correct = 0
    /\ wrong = <<>>
    /\ graded = 0
    /\ logStart = <<0, 0>>
    /\ rec = NoRec
    /\ results = NoResults
    /\ answersLog = <<>>
    /\ stampLog = <<>>
    /\ cancelTyped = FALSE

Init == InitIn(DataDirs) /\ call = NoCall

(***************************************************************************)
(* Startup: discovery and loading.                                         *)
(***************************************************************************)
\* a < b for strings (code point order).
StrLess(a, b) ==
    \E i \in 1..Len(b) :
        /\ i - 1 <= Len(a)
        /\ \A j \in 1..(i - 1) : a[j] = b[j]
        /\ (i = Len(a) + 1 \/ a[i] < b[i])

\* The key of files.sort(key=lambda p: os.path.basename(p).lower()).
SortKey(name) == Lower(name)

\* sorted(names, key=SortKey) for names with pairwise distinct keys.
RECURSIVE SortedNames(_)
SortedNames(names) ==
    IF names = {} THEN <<>>
    ELSE LET first == CHOOSE n \in names :
                         \A m \in names \ {n} : StrLess(SortKey(n), SortKey(m))
         IN  <<first>> \o SortedNames(names \ {first})

\* discover_deck_files(DATA_DIR)
discover_deck_files(dir) ==
    IF ~dir.isdir THEN <<>>
    ELSE SortedNames({e.name : e \in {f \in dir.entries : HasSupportedExt(f.name)}})

\* The directory entry a path names.
FileAt(name) == CHOOSE e \in dataDir.entries : e.name = name

\* The state of a session is gone: run_quiz returned (its locals no longer
\* exist and main assigns deck and mode before it reads them again) or the
\* process ended.
ClearSession ==
    /\ deck' = 0
    /\ mode' = 0
    /\ cards' = <<>>
    /\ idx' = 0
    /\ this_mode' = 0
    /\ correct' = 0
    /\ wrong' = <<>>
    /\ graded' = 0
    /\ logStart' = <<0, 0>>
    /\ rec' = NoRec
    /\ results' = NoResults
    /\ cancelTyped' = FALSE

\* The process ends with an exit status and a last message.
ExitWith(code, msg) ==
    /\ pc' = "exited"
    /\ exit' = [code |-> code, msg |-> msg]
    /\ ClearSession

\* An exception nothing catches: the traceback and exit status 1.
Uncaught(exc) == ExitWith(1, "Traceback: " \o exc)

\* The exceptions load_deck catches.
Caught == {"FileNotFoundError", "YAMLError"}

\* main, line 353.
Discover ==
    /\ pc = "start"
    /\ deck_files' = discover_deck_files(dataDir)
    /\ pc' = "load"
    /\ UNCHANGED <<call, dataDir, loadIdx, decks, diagnostics, exit, sessions,
                   sessionVars, logVars>>

\* LoadDeck with a deck without cards left out of the registry.
LoadDeck_DropEmpty ==
    /\ pc = "load"
    /\ loadIdx < Len(deck_files)
    /\ LET path == deck_files[loadIdx + 1]
           f == FileAt(path)
       IN  \/ /\ f.read = "ok"
              /\ decks' = IF _normalize_deck_from_data(f.data, path).cards = <<>>
                          THEN decks
                          ELSE Append(decks, _normalize_deck_from_data(f.data, path))
              /\ loadIdx' = loadIdx + 1
              /\ UNCHANGED <<diagnostics, pc, exit, sessionVars>>
           \/ /\ f.read \in Caught
              /\ diagnostics' = Append(diagnostics, path)
              /\ loadIdx' = loadIdx + 1
              /\ UNCHANGED <<decks, pc, exit, sessionVars>>
           \/ /\ f.read \notin Caught \cup {"ok"}
              /\ Uncaught(f.read)
              /\ UNCHANGED <<decks, diagnostics, loadIdx>>
    /\ UNCHANGED <<call, dataDir, deck_files, sessions, logVars>>

\* One turn of the loop of main over deck_files: load_deck and the append.
LoadDeck ==
    /\ pc = "load"
    /\ loadIdx < Len(deck_files)
    /\ LET path == deck_files[loadIdx + 1]
           f == FileAt(path)
       IN  \/ /\ f.read = "ok"
              /\ decks' = Append(decks, _normalize_deck_from_data(f.data, path))
              /\ loadIdx' = loadIdx + 1
              /\ UNCHANGED <<diagnostics, pc, exit, sessionVars>>
           \/ /\ f.read \in Caught
              /\ diagnostics' = Append(diagnostics, path)
              /\ loadIdx' = loadIdx + 1
              /\ UNCHANGED <<decks, pc, exit, sessionVars>>
           \/ /\ f.read \notin Caught \cup {"ok"}
              /\ Uncaught(f.read)
              /\ UNCHANGED <<decks, diagnostics, loadIdx>>
    /\ UNCHANGED <<call, dataDir, deck_files, sessions, logVars>>

\* main, lines 360-365: after the loop, exit when there is no deck, else show
\* the deck menu of choose_deck and wait for the choice.
EndLoad ==
    /\ pc = "load"
    /\ loadIdx = Len(deck_files)
    /\ IF decks = <<>>
       THEN ExitWith(1, "No YAML decks found")
       ELSE /\ pc' = "choose_deck"
            /\ UNCHANGED <<exit, sessionVars>>
    /\ UNCHANGED <<call, dataDir, startupVars, sessions, logVars>>

(***************************************************************************)
(* Prompts.                                                                *)
(***************************************************************************)
\* Value of a string of decimal digits.
RECURSIVE DigitsValue(_)
DigitsValue(ds) ==
    IF ds = <<>> THEN 0
    ELSE 10 * DigitsValue(SubSeq(ds, 1, Len(ds) - 1)) + (ds[Len(ds)] - 48)

\* int(s): [ok, val]; ok is FALSE where int raises ValueError.  Accepts
\* surrounding whitespace, one sign and ASCII digits.
PyInt(s) ==
    LET t == Strip(s)
        signed == t # <<>> /\ t[1] \in {43, 45}
        ds == IF signed THEN Tail(t) ELSE t
    IN  IF ds # <<>> /\ \A i \in 1..Len(ds) : ds[i] \in 48..57
        THEN [ok |-> TRUE,
              val |-> IF signed /\ t[1] = 45 THEN 0 - DigitsValue(ds)
                      ELSE DigitsValue(ds)]
        ELSE [ok |-> FALSE, val |-> 0]

\* One turn of the loop of ask_int on the line s: [ok, val], ok FALSE when
\* it prints "Please enter a number" and asks again.
ask_int(s, lo, hi) ==
    LET r == PyInt(Strip(s))
    IN  IF r.ok /\ lo <= r.val /\ r.val <= hi THEN r ELSE [ok |-> FALSE, val |-> 0]

\* ask_yes_no accepting no line.
ask_yes_no_Never(s) == "again"

\* One turn of the loop of ask_yes_no on the line s: "yes", "no" or "again".
ask_yes_no(s) ==
    LET t == Lower(Strip(s))
    IN  IF t \in { <<121>>, <<121, 101, 115>> } THEN "yes"
        ELSE IF t \in { <<110>>, <<110, 111>> } THEN "no"
        ELSE "again"

MinOf(a, b) == IF a < b THEN a ELSE b
MaxOf(a, b) == IF a > b THEN a ELSE b

\* choose_count(max_n) on the line s.
choose_count(s, max_n) ==
    LET t == Strip(s)
        r == PyInt(t)
    IN  IF t = <<>> THEN max_n
        ELSE IF r.ok THEN MaxOf(1, MinOf(max_n, r.val))
        ELSE max_n

(***************************************************************************)
(* Quiz logic.                                                             *)
(***************************************************************************)
\* normalize_answer without the lower-casing.
normalize_answer_NoLower(s) == JoinSpace(Split(s))

\* normalize_answer(s)
normalize_answer(s) == JoinSpace(Split(Lower(s)))

\* run_quiz, line 282: is_correct for the answer ans and the term of the card.
IsCorrect(ans, term) == normalize_answer(ans) = normalize_answer(term)

\* run_quiz, lines 275-277: the prompt of a Question -> Term item.  The first
\* fallback is "Which term fits: " and the definition, the second
\* "Name the term for: " and the term.
QuizPrompt(card) ==
    LET prompt == IF card.quiz_question # <<>> THEN card.quiz_question
                  ELSE <<87, 104, 105, 99, 104, 32, 116, 101, 114, 109, 32, 102, 105, 116, 115, 58, 32>> \o
                       Strip(card.full_def)
    IN  IF prompt = <<>>
        THEN <<78, 97, 109, 101, 32, 116, 104, 101, 32, 116, 101, 114, 109, 32, 102, 111, 114, 58, 32>> \o
             card.term
        ELSE prompt

\* mode_name(mode)
mode_name(m) ==
    CASE m = MODE_Q_TO_TERM   -> "Question -> Term"
      [] m = MODE_TERM_TO_DEF -> "Term -> Definition"
      [] m = MODE_MIXED       -> "Mixed"
      [] OTHER                -> "Unknown"

\* HasTerm without the test of the term.
HasTerm_Any(c) == TRUE

\* run_quiz, line 249: the cards with a non-empty term, in deck order.
HasTerm(c) == c.term # <<>>

\* Eligible without the filter.
Eligible_All(d) == d.cards

\* run_quiz, line 249: the cards of the deck d that the quiz can use.
Eligible(d) == SelectSeq(d.cards, HasTerm)

\* The outcomes of random.shuffle(cs).
IndexPerms(n) ==
    {p \in [1..n -> 1..n] : \A i, j \in 1..n : p[i] = p[j] => i = j}
\* Shuffles with each position drawn independently: cards can repeat.
Shuffles_WithRepeats(cs) ==
    {[i \in 1..Len(cs) |-> cs[p[i]]] : p \in [1..Len(cs) -> 1..Len(cs)]}

Shuffles(cs) == {[i \in 1..Len(cs) |-> cs[p[i]]] : p \in IndexPerms(Len(cs))}

\* EffectiveModes without the draw under Mixed.
EffectiveModes_SessionMode(m) == {m}

\* run_quiz, lines 268-270: the values this_mode can take for one card.
EffectiveModes(m) ==
    IF m = MODE_MIXED THEN {MODE_Q_TO_TERM, MODE_TERM_TO_DEF} ELSE {m}

\* The cancel test of run_quiz, lines 280 and 299.
IsCancel(s) == Lower(Strip(s)) = <<113>>

\* "{:.1f}" of 100.0*c/total, in tenths of a percent (ties to even).
PctTenths(c, total) ==
    LET q == (1000 * c) \div total
        r == (1000 * c) % total
    IN  IF 2 * r > total \/ (2 * r = total /\ q % 2 = 1) THEN q + 1 ELSE q

\* run_quiz, lines 325-328: the "Score:" line.
ScoreLine(c, cs) ==
    [printed |-> TRUE, correct |-> c, total |-> Len(cs),
     pct |-> IF Len(cs) # 0 THEN PctTenths(c, Len(cs)) ELSE 0]

\* The loop of run_quiz ends (break or exhaustion): print the results and
\* wait in wait_key.
EndLoop(c) ==
    /\ results' = ScoreLine(c, cards')
    /\ pc' = "wait_key"

\* The head of the loop of run_quiz for item i: resolve the mode and show the
\* prompt of the item, or leave the loop when the cards are exhausted.
BeginItem(i, c) ==
    IF i > Len(cards')
    THEN /\ EndLoop(c)
         /\ UNCHANGED <<idx, this_mode>>
    ELSE /\ idx' = i
         /\ \E tm \in EffectiveModes(mode') :
               /\ this_mode' = tm
               /\ IF tm = MODE_Q_TO_TERM THEN pc' = "answer" /\ UNCHANGED results
                  ELSE IF tm = MODE_TERM_TO_DEF THEN pc' = "reveal" /\ UNCHANGED results
                  ELSE EndLoop(c)

\* choose_deck, lines 203-204, on the line s of input.
ChooseDeckOn(s) ==
    /\ pc = "choose_deck"
    /\ LET r == ask_int(s, 1, Len(decks))
       IN  IF r.ok
           THEN deck' = r.val /\ pc' = "choose_mode"
           ELSE UNCHANGED <<deck, pc>>
    /\ UNCHANGED <<call, dataDir, startupVars, exit, sessions, mode, quizVars, logVars,
                   cancelTyped>>

ChooseDeck == \E s \in Lines : ChooseDeckOn(s)

\* ChooseModeOn with run_quiz filtering and shuffling the cards of the deck
\* itself.
ChooseModeOn_InPlace(s) ==
    /\ pc = "choose_mode"
    /\ LET r == ask_int(s, MODE_Q_TO_TERM, MODE_MIXED)
       IN  IF r.ok
           THEN /\ sessions' = sessions + 1
                /\ IF Eligible(decks[deck]) = <<>>
                   THEN /\ pc' = "again"
                        /\ ClearSession
                        /\ UNCHANGED decks
                   ELSE /\ mode' = r.val
                        /\ cards' \in Shuffles(Eligible(decks[deck]))
                        /\ decks' = [decks EXCEPT ![deck].cards = cards']
                        /\ logStart' = <<Len(answersLog), Len(stampLog)>>
                        /\ pc' = "choose_count"
                        /\ UNCHANGED <<deck, idx, this_mode, correct, wrong,
                                       graded, rec, results, cancelTyped>>
           ELSE UNCHANGED <<sessions, pc, sessionVars, decks>>
    /\ UNCHANGED <<call, dataDir, deck_files, loadIdx, diagnostics, exit, logVars>>

\* choose_mode, line 214, on the line s of input, and run_quiz up to the prompt
\* of choose_count (lines 249-255) or to its return on a deck without cards.
ChooseModeOn(s) ==
    /\ pc = "choose_mode"
    /\ LET r == ask_int(s, MODE_Q_TO_TERM, MODE_MIXED)
       IN  IF r.ok
           THEN /\ sessions' = sessions + 1
                /\ IF Eligible(decks[deck]) = <<>>
                   THEN /\ pc' = "again"
                        /\ ClearSession
                   ELSE /\ mode' = r.val
                        /\ cards' \in Shuffles(Eligible(decks[deck]))
                        /\ logStart' = <<Len(answersLog), Len(stampLog)>>
                        /\ pc' = "choose_count"
                        /\ UNCHANGED <<deck, idx, this_mode, correct, wrong,
                                       graded, rec, results, cancelTyped>>
           ELSE UNCHANGED <<sessions, pc, sessionVars>>
    /\ UNCHANGED <<call, dataDir, startupVars, exit, logVars>>

ChooseMode == \E s \in Lines : ChooseModeOn(s)

\* choose_count, lines 221-229, on the line s of input, and run_quiz up to the
\* first prompt of the first item (lines 256-279 or 256-298).
ChooseCountOn(s) ==
    /\ pc = "choose_count"
    /\ cards' = SubSeq(cards, 1, choose_count(s, Len(cards)))
    /\ correct' = 0
    /\ wrong' = <<>>
    /\ UNCHANGED mode
    /\ BeginItem(1, 0)
    /\ UNCHANGED <<call, dataDir, startupVars, exit, sessions, deck, graded, logStart,
                   rec, logVars, cancelTyped>>

ChooseCount == \E s \in Lines : ChooseCountOn(s)

\* MissedAfter with every graded item appended.
MissedAfter_Always(w, card, user_ans, is_correct) == Append(w, <<card, user_ans>>)

\* run_quiz, lines 290 and 314: the missed list w after an item was graded.
MissedAfter(w, card, user_ans, is_correct) ==
    IF is_correct THEN w ELSE Append(w, <<card, user_ans>>)

\* The record run_quiz hands to log_answer.
Record(tm, card, user_ans, is_correct) ==
    [deck_title |-> decks[deck].title, mode |-> mode_name(tm),
     term |-> card.term, user_ans |-> user_ans, correct |-> is_correct]

\* run_quiz, lines 279-292: the answer of a Question -> Term item, on the
\* line s of input.
AnswerOn(s) ==
    /\ pc = "answer"
    /\ cancelTyped' = IsCancel(s)
    /\ LET ans == Strip(s)
           card == cards[idx]
           is_correct == IsCorrect(ans, card.term)
       IN  IF Lower(ans) = <<113>>
           THEN /\ UNCHANGED <<cards, correct>>
                /\ EndLoop(correct)
                /\ UNCHANGED <<wrong, graded, rec>>
           ELSE /\ Len(answersLog) < MaxLogged
                /\ correct' = IF is_correct THEN correct + 1 ELSE correct
                /\ wrong' = MissedAfter(wrong, card, ans, is_correct)
                /\ graded' = graded + 1
                /\ rec' = Record(this_mode, card, ans, is_correct)
                /\ pc' = "makedirs"
                /\ UNCHANGED <<cards, results>>
    /\ UNCHANGED <<call, dataDir, startupVars, exit, sessions, deck, mode, idx,
                   this_mode, logStart, logVars>>

Answer == \E s \in AnswerLines : AnswerOn(s)

\* run_quiz, lines 298-305: the reveal request of a Term -> Definition item.
\* (An item that would be graded beyond MaxLogged is not revealed.)
Reveal ==
    /\ pc = "reveal"
    /\ \E s \in Lines :
          /\ cancelTyped' = IsCancel(s)
          /\ IF Lower(Strip(s)) = <<113>>
             THEN UNCHANGED cards /\ EndLoop(correct)
             ELSE /\ Len(answersLog) < MaxLogged
                  /\ pc' = "judge"
                  /\ UNCHANGED <<cards, results>>
    /\ UNCHANGED <<call, dataDir, startupVars, exit, sessions, deck, mode, idx,
                   this_mode, correct, wrong, graded, logStart, rec, logVars>>

\* Sentinel with no text.
Sentinel_Blank(knew_it) == <<>>

\* run_quiz, lines 312 and 315: user_ans of a Term -> Definition item,
\* "(knew)" or "(unknown)".
Sentinel(knew_it) ==
    IF knew_it THEN <<40, 107, 110, 101, 119, 41>>
    ELSE <<40, 117, 110, 107, 110, 111, 119, 110, 41>>

\* run_quiz, lines 308-318: the yes/no judgment of a Term -> Definition item,
\* on the line s of input.
JudgeOn(s) ==
    /\ pc = "judge"
    /\ cancelTyped' = IsCancel(s)
    /\ LET a == ask_yes_no(s)
           card == cards[idx]
       IN  IF a = "again"
           THEN UNCHANGED <<correct, wrong, graded, rec, pc>>
           ELSE /\ Len(answersLog) < MaxLogged
                /\ correct' = IF a = "yes" THEN correct + 1 ELSE correct
                /\ wrong' = MissedAfter(wrong, card, <<>>, a = "yes")
                /\ graded' = graded + 1
                /\ rec' = Record(this_mode, card, Sentinel(a = "yes"), a = "yes")
                /\ pc' = "makedirs"
    /\ UNCHANGED <<call, dataDir, startupVars, exit, sessions, deck, mode, cards, idx,
                   this_mode, logStart, results, logVars>>

Judge == \E s \in Lines : JudgeOn(s)

(***************************************************************************)
(* log_answer.                                                             *)
(***************************************************************************)
\* The line of stamp.log for a record: obfuscate_line of its plain line.
ShadowLine(r) == [shadow_of |-> r]

\* log_answer, line 67: os.makedirs succeeds or raises.
MakeDirs ==
    /\ pc = "makedirs"
    /\ \/ pc' = "write_plain" /\ UNCHANGED <<exit, sessionVars>>
       \/ Uncaught("OSError")
    /\ UNCHANGED <<call, dataDir, startupVars, sessions, logVars>>

\* WritePlain with the failure of the append caught and ignored.
WritePlain_Swallow ==
    /\ pc = "write_plain"
    /\ \/ /\ answersLog' = Append(answersLog, rec)
          /\ pc' = "write_shadow"
          /\ UNCHANGED <<exit, sessionVars>>
       \/ pc' = "write_shadow" /\ UNCHANGED <<answersLog, exit, sessionVars>>
    /\ UNCHANGED <<call, dataDir, startupVars, sessions, stampLog>>

\* log_answer, lines 72-73: the append to answers.log succeeds or raises.
WritePlain ==
    /\ pc = "write_plain"
    /\ \/ /\ answersLog' = Append(answersLog, rec)
          /\ pc' = "write_shadow"
          /\ UNCHANGED <<exit, sessionVars>>
       \/ Uncaught("OSError") /\ UNCHANGED answersLog
    /\ UNCHANGED <<call, dataDir, startupVars, sessions, stampLog>>

\* WriteShadow without the append to stamp.log.
WriteShadow_NoAppend ==
    /\ pc = "write_shadow"
    /\ \/ /\ UNCHANGED <<stampLog, cards, mode, exit>>
          /\ BeginItem(idx + 1, correct)
          /\ UNCHANGED <<deck, correct, wrong, graded, logStart, rec, cancelTyped>>
       \/ Uncaught("OSError") /\ UNCHANGED stampLog
    /\ UNCHANGED <<call, dataDir, startupVars, sessions, answersLog>>

\* log_answer, lines 76-77: the append to stamp.log succeeds or raises; on
\* success run_quiz goes on to the next item.
WriteShadow ==
    /\ pc = "write_shadow"
    /\ \/ /\ stampLog' = Append(stampLog, ShadowLine(rec))
          /\ UNCHANGED <<cards, mode, exit>>
          /\ BeginItem(idx + 1, correct)
          /\ UNCHANGED <<deck, correct, wrong, graded, logStart, rec, cancelTyped>>
       \/ Uncaught("OSError") /\ UNCHANGED stampLog
    /\ UNCHANGED <<call, dataDir, startupVars, sessions, answersLog>>

(***************************************************************************)
(* The end of a session and of the program.                                *)
(***************************************************************************)
\* ReturnToMain with the loop of main going straight back to the deck menu.
ReturnToMain_NoPrompt ==
    /\ pc' = "choose_deck"
    /\ ClearSession

\* run_quiz returns to main, which asks "Study another deck?" (line 372).
ReturnToMain ==
    /\ pc' = "again"
    /\ ClearSession

\* wait_key at the end of run_quiz, line 345, on one line of input.
WaitKey ==
    /\ pc = "wait_key"
    /\ \E s \in Lines : ReturnToMain
    /\ UNCHANGED <<call, dataDir, startupVars, exit, sessions, logVars>>

\* main, lines 372-376, on one line of input.
Again ==
    /\ pc = "again"
    /\ \E s \in Lines :
          LET a == ask_yes_no(s)
          IN  \/ /\ a = "yes"
                 /\ sessions < MaxSessions
                 /\ pc' = "choose_deck"
                 /\ UNCHANGED <<exit, sessionVars>>
              \/ /\ a = "no"
                 /\ ExitWith(0, "Good luck! See you next time.")
              \/ /\ a = "again"
                 /\ UNCHANGED <<pc, exit, sessionVars>>
    /\ UNCHANGED <<call, dataDir, startupVars, sessions, logVars>>

\* input() raises EOFError: wait_key catches it, nothing else does.
EndOfInput ==
    /\ pc \in Prompts
    /\ IF pc = "wait_key"
       THEN ReturnToMain /\ UNCHANGED exit
       ELSE Uncaught("EOFError")
    /\ UNCHANGED <<call, dataDir, startupVars, sessions, logVars>>

\* KeyboardInterrupt anywhere in main, lines 380-383.
Interrupt ==
    /\ pc # "exited"
    /\ ExitWith(0, "Interrupted. Bye!")
    /\ UNCHANGED <<call, dataDir, startupVars, sessions, logVars>>

Next ==
    \/ Discover \/ LoadDeck \/ EndLoad
    \/ ChooseDeck \/ ChooseMode \/ ChooseCount
    \/ Answer \/ Reveal \/ Judge
    \/ MakeDirs \/ WritePlain \/ WriteShadow
    \/ WaitKey \/ Again
    \/ EndOfInput \/ Interrupt

Spec == Init /\ [][Next]_vars

(***************************************************************************)
(* The loader alone: startup on a directory that holds one file.           *)
(***************************************************************************)
InitLoader == InitIn(LoaderDirs) /\ call = NoCall

NextLoader == Discover \/ LoadDeck \/ EndLoad

SpecLoader == InitLoader /\ [][NextLoader]_vars

(***************************************************************************)
(* Properties.                                                             *)
(***************************************************************************)
Interrupted == exit.msg = "Interrupted. Bye!"
LogSteps == {"makedirs", "write_plain", "write_shadow"}
InSession == pc \in ItemPrompts \cup LogSteps \cup {"wait_key"}

\* A step that reads the cancel token at a prompt of an item.
ReadsCancel == pc \in ItemPrompts /\ ~cancelTyped /\ cancelTyped'

\* C1: when the learner submits the cancel token on item k, the loop stops at
\* once with exactly k-1 items graded and logged, and the aborting item
\* changes neither the correct count, nor the missed list, nor either log.
C1_CancelStopsAtOnce ==
    [][ReadsCancel =>
          /\ pc' = "wait_key"
          /\ results'.printed
          /\ graded' = idx - 1
          /\ Len(answersLog') - logStart[1] = idx - 1
          /\ Len(stampLog') - logStart[2] = idx - 1
          /\ UNCHANGED <<correct, wrong, answersLog, stampLog>>]_vars

\* C2: whenever the summary of a session is on the screen, its count is the
\* number of items graded and its percentage is correct/graded x 100 to one
\* decimal, 0.0 when nothing was graded.
C2_SummaryCountsGraded ==
    results.printed =>
        /\ results.correct = correct
        /\ results.total = graded
        /\ results.pct = IF graded = 0 THEN 0 ELSE PctTenths(correct, graded)

\* C3: at the first prompt of an item and at the end of the session, both logs
\* gained as many lines as items were graded, the i-th of them describing the
\* i-th presented card; the shadow line of a record is the write that follows
\* its plain line.
C3_AtRest == (pc \in {"answer", "reveal", "wait_key"}) =>
    /\ Len(answersLog) - logStart[1] = graded
    /\ Len(stampLog) - logStart[2] = graded
    /\ pc \in {"answer", "reveal"} => graded = idx - 1
    /\ \A i \in 1..graded :
          /\ answersLog[logStart[1] + i].term = cards[i].term
          /\ answersLog[logStart[1] + i].deck_title = decks[deck].title
          /\ stampLog[logStart[2] + i] = ShadowLine(answersLog[logStart[1] + i])

C3_ShadowFollowsPlain ==
    /\ answersLog' # answersLog =>
          /\ pc = "write_plain" /\ pc' = "write_shadow"
          /\ answersLog' = Append(answersLog, rec)
          /\ stampLog' = stampLog
    /\ pc = "write_shadow" =>
          \/ /\ stampLog' = Append(stampLog, ShadowLine(answersLog[Len(answersLog)]))
             /\ answersLog' = answersLog
          \/ pc' = "exited" /\ UNCHANGED logVars
    /\ stampLog' # stampLog => pc = "write_shadow"

C3_LogsInStep == []C3_AtRest /\ [][C3_ShadowFollowsPlain]_vars

C3_Witness ==
    /\ pc \in {"answer", "reveal"}
    /\ idx = 2
    /\ graded = 1
    /\ logStart = <<1, 1>>
    /\ Len(stampLog) = 2

\* C4: when the append to answers.log fails, the append to stamp.log is still
\* attempted.
C4_OtherWriteAttempted ==
    [][(pc = "write_plain" /\ answersLog' = answersLog /\ ~Interrupted')
          => pc' = "write_shadow"]_vars

\* C5: a failed step of log_answer always ends the program with the error:
\* no step leaves a log write without either having appended the record or
\* having exited with the traceback (or the interrupt), and nothing happens
\* after the exit.
C5_Step ==
    /\ pc = "makedirs" => pc' \in {"write_plain", "exited"}
    /\ pc = "write_plain" =>
          \/ answersLog' = Append(answersLog, rec) /\ pc' = "write_shadow"
          \/ pc' = "exited" /\ exit'.code = 1 /\ exit'.msg = "Traceback: OSError"
          \/ pc' = "exited" /\ Interrupted'
    /\ pc = "write_shadow" =>
          \/ stampLog' = Append(stampLog, ShadowLine(rec)) /\ pc' \in Prompts
          \/ pc' = "exited" /\ exit'.code = 1 /\ exit'.msg = "Traceback: OSError"
          \/ pc' = "exited" /\ Interrupted'
    /\ (pc' = "exited" /\ ~Interrupted' /\ pc \in LogSteps) =>
          /\ UNCHANGED <<logVars, sessions>>
          /\ ~results'.printed
    /\ pc # "exited"

C5_WriteFailurePropagates == [][C5_Step]_vars

C5_Witness ==
    /\ pc = "exited"
    /\ exit = [code |-> 1, msg |-> "Traceback: OSError"]
    /\ Len(answersLog) = Len(stampLog) + 1

\* C6: the effective mode of every item is Question -> Term or
\* Term -> Definition, it is the session mode unless that is Mixed, and the
\* mode written to the logs is the name of the effective mode, never "Mixed".
ItemModeNames == {mode_name(MODE_Q_TO_TERM), mode_name(MODE_TERM_TO_DEF)}

C6_EffectiveMode ==
    /\ (InSession /\ idx >= 1) =>
          /\ this_mode \in {MODE_Q_TO_TERM, MODE_TERM_TO_DEF}
          /\ mode # MODE_MIXED => this_mode = mode
    /\ pc \in LogSteps => rec.mode = mode_name(this_mode)
    /\ \A i \in 1..Len(answersLog) : answersLog[i].mode \in ItemModeNames
    /\ \A i \in 1..Len(stampLog) : stampLog[i].shadow_of.mode \in ItemModeNames
    /\ InSession => \A i \in 1..(Len(answersLog) - logStart[1]) :
          mode # MODE_MIXED => answersLog[logStart[1] + i].mode = mode_name(mode)

\* A Mixed session whose second item has another effective mode than its first.
C6_Witness ==
    /\ mode = MODE_MIXED
    /\ pc \in {"answer", "reveal"}
    /\ idx = 2
    /\ Len(answersLog) = logStart[1] + 1
    /\ answersLog[Len(answersLog)].mode # mode_name(this_mode)

\* The entries of a parsed deck file, in source order.
SourceEntries(data) ==
    IF data.tag = "list" THEN data.items
    ELSE IF data.tag = "dict" /\ "cards" \in DOMAIN data.d
            /\ data.d["cards"].tag = "list"
    THEN data.d["cards"].items
    ELSE <<>>

\* C7: no card with an empty term is presented, graded or logged, and an
\* entry without a `term` key becomes a card with term "" that is not among
\* the eligible cards of its deck.
C7_NoEmptyTerm ==
    /\ \A i \in 1..Len(cards) : cards[i].term # <<>>
    /\ rec # NoRec => rec.term # <<>>
    /\ \A i \in 1..Len(wrong) : wrong[i][1].term # <<>>
    /\ \A i \in 1..Len(answersLog) : answersLog[i].term # <<>>
    /\ \A i \in 1..Len(stampLog) : stampLog[i].shadow_of.term # <<>>
    /\ \A k \in 1..Len(decks) :
          LET es == SourceEntries(FileAt(decks[k].source_file).data)
          IN  \A i \in 1..Len(es) :
                 (es[i].tag = "dict" /\ "term" \notin DOMAIN es[i].d) =>
                    /\ i <= Len(decks[k].cards)
                    /\ decks[k].cards[i].term = <<>>
                    /\ \A j \in 1..Len(Eligible(decks[k])) :
                          Eligible(decks[k])[j] # decks[k].cards[i]
                    /\ (InSession /\ deck = k) =>
                          \A j \in 1..Len(cards) : cards[j] # decks[k].cards[i]

\* A session on all eligible cards of a deck that has an entry without term.
C7_Witness ==
    /\ pc \in {"answer", "reveal"}
    /\ idx = 2
    /\ Len(answersLog) = 1
    /\ \E i \in 1..Len(decks[deck].cards) : decks[deck].cards[i].term = <<>>

\* The discovered files and, among them, those load_deck cannot read or parse.
Discovered == discover_deck_files(dataDir)
BadFiles == {i \in 1..Len(Discovered) : FileAt(Discovered[i]).read # "ok"}

\* C8: a file that cannot be read or parsed never aborts startup; once loading
\* is over, each of the k bad files among the n discovered has one diagnostic
\* and n-k decks are in the registry.
C8_BadFileSkipped ==
    (pc \notin {"start", "load"} /\ ~Interrupted) =>
        /\ loadIdx = Len(Discovered)
        /\ Len(diagnostics) = Cardinality(BadFiles)
        /\ Len(decks) = Len(Discovered) - Cardinality(BadFiles)

\* C9: when the data directory is missing or no discovered file loads, main
\* ends with the "no decks" message and a nonzero status, having shown no
\* menu, run no session and written no log line.
NoneLoads == Cardinality(BadFiles) = Len(Discovered)

C9_NoDecksExit ==
    NoneLoads =>
        /\ pc \in {"start", "load", "exited"}
        /\ sessions = 0
        /\ deck = 0
        /\ answersLog = <<>> /\ stampLog = <<>>
        /\ (pc = "exited" /\ ~Interrupted) =>
              exit = [code |-> 1, msg |-> "No YAML decks found"]

\* Well-formed deck content: an object with a `cards` list whose `title`, if
\* any, is a string, or a bare list.
WellFormed(data) ==
    \/ data.tag = "list"
    \/ /\ data.tag = "dict"
       /\ "cards" \in DOMAIN data.d
       /\ data.d["cards"].tag = "list"
       /\ "title" \in DOMAIN data.d => data.d["title"].tag = "str"

\* C10: the deck of a well-formed file has a non-empty title, which is the
\* `title` of an object that has a non-empty one and the base name of the file
\* otherwise, and one card per source entry, in source order.
C10_NormalizedDeck ==
    \A k \in 1..Len(decks) :
        LET d == decks[k]
            data == FileAt(d.source_file).data
            es == SourceEntries(data)
            titled == /\ data.tag = "dict"
                      /\ "title" \in DOMAIN data.d
                      /\ data.d["title"].s # <<>>
        IN  WellFormed(data) =>
               /\ d.title.tag = "str"
               /\ d.title.s # <<>>
               /\ d.title.s = IF titled THEN data.d["title"].s
                              ELSE BaseTitle(d.source_file)
               /\ Len(d.cards) = Len(es)
               /\ \A i \in 1..Len(es) : d.cards[i] = coerce_card(es[i])

\* The deck of c.d.yml holding an object with an empty title and three entries.
C10_Witness ==
    /\ pc = "choose_deck"
    /\ Len(decks) = 1
    /\ LET data == FileAt(decks[1].source_file).data
       IN  /\ data.tag = "dict" /\ "title" \in DOMAIN data.d
           /\ data.d["title"] = Str(<<>>)
           /\ Len(decks[1].cards) = 3
    /\ decks[1].title = Str(<<99, 46, 100>>)

\* The line s holds an integer from lo to hi.
InBounds(s, lo, hi) == PyInt(s).ok /\ lo <= PyInt(s).val /\ PyInt(s).val <= hi

\* C11: at the deck menu, the mode menu and the card count prompt, a line that
\* is not a number within the bounds of the prompt (for the card count: and
\* is not blank, which asks for all cards) leaves the program at the same
\* prompt; no line ends the program there; and the session that leaves the
\* card count prompt has from 1 to eligible-card-count cards.
C11_NumericPromptsReloop ==
    [][\A s \in Lines :
          /\ ChooseDeckOn(s) =>
                /\ pc' # "exited"
                /\ ~InBounds(s, 1, Len(decks)) => pc' = pc
          /\ ChooseModeOn(s) =>
                /\ pc' # "exited"
                /\ ~InBounds(s, MODE_Q_TO_TERM, MODE_MIXED) => pc' = pc
          /\ ChooseCountOn(s) =>
                /\ pc' # "exited"
                /\ Len(cards') \in 1..Len(Eligible(decks[deck]))
                /\ (Strip(s) # <<>> /\ ~InBounds(s, 1, Len(cards))) => pc' = pc]_vars

\* C12: a step that reads the cancel token at a prompt of an item (the answer
\* of a Question -> Term item, the reveal request or the yes/no judgment of a
\* Term -> Definition item) ends the loop: the summary is printed and the
\* program waits at the end of the session.
C12_CancelAtEveryInput ==
    [][(pc \in ItemPrompts /\ cancelTyped') =>
          /\ pc' = "wait_key"
          /\ results'.printed]_vars

\* C13: end of input at a wait for Enter (the reveal request of a
\* Term -> Definition item, the wait at the end of the session) raises no
\* error: the program goes on as after Enter, to the judgment of the item
\* whose definition it revealed, resp. back to main.
C13_EndOfInputAtRevealWait ==
    [][(EndOfInput /\ pc \in {"reveal", "wait_key"}) =>
          /\ exit' = Running
          /\ pc' = IF pc = "reveal" THEN "judge" ELSE "again"]_vars

(***************************************************************************)
(* Functions called on their own: obfuscate_line, normalize_answer, the    *)
(* grading expression of run_quiz and the text log_answer writes.          *)
(***************************************************************************)
\* string.ascii_lowercase
ascii_lowercase == 97..122

\* obfuscate_line, lines 45-49: s with the letter pads[i] after its i-th
\* character.
Expanded(s, pads) ==
    [k \in 1..(2 * Len(s)) |->
        IF k % 2 = 1 THEN s[(k + 1) \div 2] ELSE pads[k \div 2]]

\* obfuscate_line with the shift not reduced modulo 255.
obfuscate_line_NoWrap(s, pads) ==
    [k \in 1..(2 * Len(s)) |-> Expanded(s, pads)[k] + 7]

\* obfuscate_line(s), where pads are the letters random.choice returned.
obfuscate_line(s, pads) ==
    [k \in 1..(2 * Len(s)) |-> (Expanded(s, pads)[k] + 7) % 255]

\* The code points of a mode name.
Chars(name) ==
    CASE name = "Question -> Term"   -> <<81, 117, 101, 115, 116, 105, 111, 110, 32, 45, 62, 32, 84, 101, 114, 109>>
      [] name = "Term -> Definition" -> <<84, 101, 114, 109, 32, 45, 62, 32, 68, 101, 102, 105, 110, 105, 116, 105, 111, 110>>
      [] name = "Mixed"              -> <<77, 105, 120, 101, 100>>
      [] OTHER                       -> <<85, 110, 107, 110, 111, 119, 110>>

\* log_answer, line 65: the plain line of a record written at time ts.
PlainLine(ts, r) ==
    ts \o <<9>> \o PyStr(r.deck_title) \o <<9>> \o Chars(r.mode) \o <<9>> \o
    r.term \o <<9>> \o r.user_ans \o <<9>> \o
    (IF r.correct THEN <<49>> ELSE <<48>>)

\* The strings obfuscate_line is called on: "", "A", "z", tab, U+0003,
\* U+00F8, U+00FE, U+00FF, U+0102, "A\t", U+00F8 U+10FFFF, "Y\t1".
ObfTexts ==
    { <<>>, <<65>>, <<122>>, <<9>>, <<3>>, <<248>>, <<254>>, <<255>>, <<258>>,
      <<65, 9>>, <<248, 1114111>>, <<89, 9, 49>> }

\* The strings normalize_answer is called on, and the answers and terms of
\* the grading expression: "", "q", "Y", "y", " Y", "Y ", "a b", "A  B",
\* "a\tb", " a b ", "ab", "a" U+00A0 "b", U+00C9, U+00E9 " ".
NormTexts ==
    { <<>>, <<113>>, <<89>>, <<121>>, <<32, 89>>, <<89, 32>>, <<97, 32, 98>>,
      <<65, 32, 32, 66>>, <<97, 9, 98>>, <<32, 97, 32, 98, 32>>, <<97, 98>>,
      <<97, 160, 98>>, <<201>>, <<233, 32>> }

\* Deck titles of the records: "T", "T\tU", 5.
LogTitles == { Str(<<84>>), Str(<<84, 9, 85>>), IntV(5) }

\* Card entries of the records: {term: "Y", ...}, {term: " a\tb "}, the
\* string "a\nb", {term: U+0102}, {term: U+0105}.
LogEntries ==
    { EntryFull, Dict([term |-> Str(<<32, 97, 9, 98, 32>>)]), Str(<<97, 10, 98>>),
      Dict([term |-> Str(<<258>>)]), Dict([term |-> Str(<<261>>)]) }

\* Lines typed as the answer of the records: " Y", "a\tb", "n".
LogAnswerLines == { <<32, 89>>, <<97, 9, 98>>, <<110>> }

\* datetime.now().strftime("%Y-%m-%d %H:%M:%S"): "2026-11-02 09:30:00"
Timestamps ==
    { <<50, 48, 50, 54, 45, 49, 49, 45, 48, 50, 32, 48, 57, 58, 51, 48, 58, 48, 48>> }

\* The records run_quiz hands to log_answer for these titles, entries and
\* lines: lines 279-292 for a Question -> Term item, lines 308-318 for a
\* Term -> Definition item.
LogRecords ==
    { [deck_title |-> t, mode |-> mode_name(MODE_Q_TO_TERM),
       term |-> coerce_card(e).term, user_ans |-> Strip(a),
       correct |-> IsCorrect(Strip(a), coerce_card(e).term)] :
        t \in LogTitles, e \in LogEntries, a \in LogAnswerLines } \cup
    { [deck_title |-> t, mode |-> mode_name(MODE_TERM_TO_DEF),
       term |-> coerce_card(e).term,
       user_ans |-> Sentinel(k),
       correct |-> k] :
        t \in LogTitles, e \in LogEntries, k \in BOOLEAN }

\* A call that has not run yet.
Pending(fn, args) == [fn |-> fn, args |-> args, done |-> FALSE, ret |-> <<>>]

Calls ==
    { Pending("obfuscate_line", s) : s \in ObfTexts } \cup
    { Pending("normalize_answer", s) : s \in NormTexts } \cup
    { Pending("is_correct", <<a, t>>) : a \in NormTexts, t \in NormTexts } \cup
    { Pending("log_answer", [ts |-> ts, rec |-> r]) :
        ts \in Timestamps, r \in LogRecords }

\* Everything but call.
mainVars == <<dataDir, pc, startupVars, exit, sessions, sessionVars, logVars>>

\* Returns the result ret of the call.
Return(ret) ==
    /\ call' = [call EXCEPT !.done = TRUE, !.ret = ret]
    /\ UNCHANGED mainVars

\* obfuscate_line(s) with any letters drawn.
CallObfuscate ==
    /\ call.fn = "obfuscate_line" /\ ~call.done
    /\ \E pads \in [1..Len(call.args) -> ascii_lowercase] :
          Return(obfuscate_line(call.args, pads))

\* normalize_answer(s)
CallNormalize ==
    /\ call.fn = "normalize_answer" /\ ~call.done
    /\ Return(normalize_answer(call.args))

\* run_quiz, lines 279-282, on a line typed and a term: whether the loop
\* breaks on the cancel token and, when it does not, is_correct.
CallIsCorrect ==
    /\ call.fn = "is_correct" /\ ~call.done
    /\ LET ans == Strip(call.args[1])
       IN  IF Lower(ans) = <<113>>
           THEN Return([break |-> TRUE, is_correct |-> FALSE])
           ELSE Return([break |-> FALSE, is_correct |-> IsCorrect(ans, call.args[2])])

\* log_answer, lines 64-77, when both writes succeed: the line written to
\* answers.log and the one written to stamp.log (each without its final
\* "\n").  Of the letters obfuscate_line can draw along the line, the 26
\* draws of one letter throughout are taken.
CallLogAnswer ==
    /\ call.fn = "log_answer" /\ ~call.done
    /\ LET line == PlainLine(call.args.ts, call.args.rec)
       IN  \E c \in ascii_lowercase :
              Return([plain |-> line,
                      stamp |-> obfuscate_line(line, [i \in 1..Len(line) |-> c])])

InitCalls ==
    /\ InitIn({[isdir |-> FALSE, entries |-> {}]})
    /\ call \in Calls

NextCalls == CallObfuscate \/ CallNormalize \/ CallIsCorrect \/ CallLogAnswer

SpecCalls == InitCalls /\ [][NextCalls]_vars

Returned(fn) == call.fn = fn /\ call.done

\* C14: obfuscate_line(s) is twice as long as s; counting from 0, its
\* character 2i is that of s[i] shifted by 7 modulo 255, its character 2i+1
\* is a lowercase letter shifted by 7 modulo 255, and every code point of it
\* is in 0..254.
C14_ObfuscateShape ==
    Returned("obfuscate_line") =>
        LET s == call.args
            o == call.ret
        IN  /\ Len(o) = 2 * Len(s)
            /\ \A i \in 0..(Len(s) - 1) :
                  /\ o[2 * i + 1] = (s[i + 1] + 7) % 255
                  /\ \E c \in 97..122 : o[2 * i + 2] = (c + 7) % 255
            /\ \A k \in 1..Len(o) : o[k] \in 0..254

\* obfuscate_line returned for U+00F8 U+10FFFF, whose shifted code points
\* pass 255.
C14_Witness ==
    /\ Returned("obfuscate_line")
    /\ call.args = <<248, 1114111>>
    /\ Len(call.ret) = 4
    /\ call.ret[1] = 0
    /\ call.ret[3] < 255

\* Each maximal run of whitespace of s replaced by one space.
RECURSIVE Collapse(_)
Collapse(s) ==
    IF s = <<>> THEN <<>>
    ELSE IF ~IsSpace(s[1]) THEN <<s[1]>> \o Collapse(Tail(s))
    ELSE IF Len(s) > 1 /\ IsSpace(s[2]) THEN Collapse(Tail(s))
    ELSE <<32>> \o Collapse(Tail(s))

\* s lower-cased, without leading and trailing whitespace, its runs of
\* whitespace collapsed.
Folded(s) == Collapse(Strip(Lower(s)))

\* s with one more whitespace character at an end or next to whitespace.
MoreSpace(s) ==
    { SubSeq(s, 1, k) \o <<w>> \o SubSeq(s, k + 1, Len(s)) :
        k \in {j \in 0..Len(s) : \/ j = 0 \/ j = Len(s)
                                 \/ IsSpace(s[j]) \/ IsSpace(s[j + 1])},
        w \in {32, 9} }

\* C15: an answer that does not cancel is graded correct exactly when it and
\* the term are equal once lower-cased with whitespace collapsed;
\* normalize_answer returns that form, returns it again when applied to it,
\* and returns it for every string that differs from its argument in case or
\* by one more whitespace character at an end or next to whitespace.
C15_GradingNormalized ==
    /\ (Returned("is_correct") /\ ~call.ret.break) =>
          (call.ret.is_correct <=> Folded(call.args[1]) = Folded(call.args[2]))
    /\ Returned("normalize_answer") =>
          /\ call.ret = Folded(call.args)
          /\ normalize_answer(call.ret) = call.ret
          /\ \A t \in NormTexts :
                Lower(t) = Lower(call.args) => normalize_answer(t) = call.ret
          /\ \A v \in MoreSpace(call.args) : normalize_answer(v) = call.ret

\* The line " a b " graded correct for the term "A  B".
C15_Witness ==
    /\ Returned("is_correct")
    /\ call.args = << <<32, 97, 32, 98, 32>>, <<65, 32, 32, 66>> >>
    /\ ~call.ret.break
    /\ call.ret.is_correct

\* The text s holds no line break (newline or carriage return).
OneLine(s) == \A i \in 1..Len(s) : s[i] \notin {10, 13}

\* The pieces of s between the occurrences of the character sep.
RECURSIVE SplitOn(_, _)
SplitOn(sep, s) ==
    LET at == {i \in 1..Len(s) : s[i] = sep}
    IN  IF at = {} THEN <<s>>
        ELSE LET k == CHOOSE i \in at : \A j \in at : i <= j
             IN  <<SubSeq(s, 1, k - 1)>> \o SplitOn(sep, SubSeq(s, k + 1, Len(s)))

\* C16: the text log_answer writes to answers.log for a record is one line
\* whose tab-separated fields are exactly the timestamp, the deck title, the
\* name of the effective mode, the term, the user answer and the flag 1 or 0.
C16_PlainRecordSixFields ==
    Returned("log_answer") =>
        LET r == call.args.rec
        IN  /\ OneLine(call.ret.plain)
            /\ SplitOn(9, call.ret.plain) =
                  << call.args.ts, PyStr(r.deck_title), Chars(r.mode), r.term,
                     r.user_ans, IF r.correct THEN <<49>> ELSE <<48>> >>

\* C17: the text log_answer writes to stamp.log for a record whose plain text
\* is one line holds no line break.
C17_ShadowRecordOneLine ==
    (Returned("log_answer") /\ OneLine(call.ret.plain)) => OneLine(call.ret.stamp)

\* run_quiz is running.
InRunQuiz == pc = "choose_count" \/ InSession

\* C18: the program ends with status 0 and without an interruption only from
\* the "Study another deck?" prompt, with the farewell of main, and an
\* accepting answer there never ends it; a call of run_quiz that returns
\* leaves the program at that prompt; and an interruption, which can come in
\* every state of the running program, ends it with status 0 and the message
\* of the handler.
C18_ExitPaths ==
    /\ [](pc # "exited" => ENABLED Interrupt)
    /\ [][/\ (pc # "exited" /\ pc' = "exited" /\ exit'.code = 0
                 /\ exit'.msg # "Interrupted. Bye!") =>
                /\ pc = "again"
                /\ exit'.msg = "Good luck! See you next time."
          /\ (pc = "again" /\ pc' \notin {"again", "exited"}) => pc' = "choose_deck"
          /\ (sessions' # sessions) => pc' \in {"choose_count", "again"}
          /\ (InRunQuiz /\ ~InRunQuiz') => pc' \in {"again", "exited"}
          /\ (InRunQuiz /\ pc' = "exited") =>
                exit'.msg \in {"Interrupted. Bye!", "Traceback: OSError",
                               "Traceback: EOFError"}
          /\ Interrupt => exit' = [code |-> 0, msg |-> "Interrupted. Bye!"]]_vars

\* The operator declined after the second session.
C18_Witness ==
    /\ pc = "exited"
    /\ exit = [code |-> 0, msg |-> "Good luck! See you next time."]
    /\ sessions = 2
    /\ Len(answersLog) = 1

\* The string t occurs in the string s.
Occurs(t, s) == \E k \in 0..(Len(s) - Len(t)) : SubSeq(s, k + 1, k + Len(t)) = t

\* C19: the prompt shown for a Question -> Term item is the quiz question of
\* the card when it has one; else it holds the definition when the card has
\* one; else it holds the term.
C19_PromptFallbacks ==
    pc = "answer" =>
        LET card == cards[idx]
            prompt == QuizPrompt(card)
        IN  IF card.quiz_question # <<>> THEN prompt = card.quiz_question
            ELSE IF card.full_def # <<>> THEN Occurs(card.full_def, prompt)
            ELSE Occurs(card.term, prompt)

\* The value the claim gives the field key of the card of an object entry:
\* the trimmed string, "" when the field is absent or not a string.
TrimmedOrEmpty(entry, key) ==
    IF key \in DOMAIN entry.d /\ entry.d[key].tag = "str"
    THEN Strip(entry.d[key].s)
    ELSE <<>>

\* C20: every source entry of a loaded deck has its card; the card of an
\* object entry holds, for each of term, full_def and quiz_question, the
\* trimmed string of the field, or "" when the field is absent or not a
\* string; the card of any other entry holds the string form of the entry as
\* its term and "" as full_def and quiz_question.
C20_CoercedCard ==
    \A k \in 1..Len(decks) :
        LET es == SourceEntries(FileAt(decks[k].source_file).data)
            cs == decks[k].cards
        IN  /\ Len(cs) = Len(es)
            /\ \A i \in 1..Len(es) :
                  IF es[i].tag = "dict"
                  THEN /\ cs[i].term = TrimmedOrEmpty(es[i], "term")
                       /\ cs[i].full_def = TrimmedOrEmpty(es[i], "full_def")
                       /\ cs[i].quiz_question = TrimmedOrEmpty(es[i], "quiz_question")
                  ELSE /\ cs[i].term = PyStr(es[i])
                       /\ cs[i].full_def = <<>>
                       /\ cs[i].quiz_question = <<>>

(***************************************************************************)
(* Startup on a directory of one file, up to the start of the first quiz.  *)
(***************************************************************************)
NextStart == Discover \/ LoadDeck \/ EndLoad \/ ChooseDeck \/ ChooseMode

SpecStart == InitLoader /\ [][NextStart]_vars

\* Parsed content that is neither a list nor an object with a `cards` list.
OtherShape(data) ==
    ~(\/ data.tag = "list"
      \/ /\ data.tag = "dict"
         /\ "cards" \in DOMAIN data.d
         /\ data.d["cards"].tag = "list")

\* C21: a file that parses to any other shape than the two schemas does not
\* end the program; once the loading loop has passed it, its deck is in the
\* registry, with no cards; the deck can be chosen, and the quiz started on
\* it returns at once to main, with no score.
C21_ZeroCardDeckKept ==
    /\ [](\A i \in 1..Len(deck_files) :
             LET f == FileAt(deck_files[i])
             IN  (f.read = "ok" /\ OtherShape(f.data)) =>
                    /\ exit.code # 1
                    /\ i <= loadIdx =>
                          \E k \in 1..Len(decks) :
                             /\ decks[k].source_file = deck_files[i]
                             /\ decks[k].cards = <<>>)
    /\ [][(pc = "choose_mode" /\ decks[deck].cards = <<>> /\ pc' # pc) =>
             /\ pc' = "again"
             /\ sessions' = sessions + 1
             /\ ~results'.printed
             /\ UNCHANGED <<decks, logVars>>]_vars

\* A quiz was started on the deck of a file holding the scalar 2 and returned.
C21_Witness ==
    /\ pc = "again"
    /\ sessions = 1
    /\ Len(decks) = 1
    /\ FileAt(decks[1].source_file).data = IntV(2)
    /\ decks[1].cards = <<>>

\* cs is the first Len(cs) cards of a permutation of es.
PrefixOfPermutation(cs, es) ==
    /\ Len(cs) <= Len(es)
    /\ \E p \in IndexPerms(Len(es)) : \A i \in 1..Len(cs) : cs[i] = es[p[i]]

\* C22: while run_quiz runs, its cards are the first N cards of a permutation
\* of the eligible cards of the chosen deck (all of them until the count is
\* read, from 1 to all of them after, all of them when the count is left
\* blank); the item presented is one of them, and the items are presented
\* one by one in their order, so none comes twice and at most N are graded.
\* (The eligible cards of the decks of the model are pairwise different, so
\* equal cards are the same entry.)
C22_FirstNOfPermutation ==
    /\ [](InRunQuiz =>
            LET es == Eligible(decks[deck])
            IN  /\ PrefixOfPermutation(cards, es)
                /\ Len(cards) >= 1
                /\ pc = "choose_count" => Len(cards) = Len(es)
                /\ pc # "choose_count" => idx \in 1..Len(cards)
                /\ graded <= Len(cards))
    /\ [][/\ ChooseCountOn(<<>>) => cards' = cards
          /\ (InRunQuiz /\ InRunQuiz' /\ pc # "choose_count") =>
                /\ cards' = cards
                /\ idx' \in {idx, idx + 1}
                /\ idx' = idx + 1 => pc = "write_shadow"]_vars

\* One card of a deck with two eligible cards is presented, the second of the
\* deck.
C22_Witness ==
    /\ pc \in ItemPrompts
    /\ Len(Eligible(decks[deck])) = 2
    /\ cards = <<Eligible(decks[deck])[2]>>
    /\ idx = 1

\* The records of the items graded so far in the session in progress: those
\* answers.log gained since the session began and the one being written.
GradedRecs ==
    SubSeq(answersLog, logStart[1] + 1, Len(answersLog)) \o
    (IF pc \in {"makedirs", "write_plain"} THEN <<rec>> ELSE <<>>)

NotCorrect(r) == ~r.correct
IsCorrectRec(r) == r.correct

\* C23: in every state of a session, the missed list holds, in order, the
\* items graded incorrect so far (the term of each and, for a
\* Question -> Term item, the answer given), the correct count is the number
\* of items graded correct so far, and the two add up to the number of items
\* graded, at most N; the first item of every session is presented with a
\* correct count of 0 and an empty missed list.
C23_MissedList ==
    InSession =>
        LET missed == SelectSeq(GradedRecs, NotCorrect)
        IN  /\ Len(wrong) = Len(missed)
            /\ \A k \in 1..Len(wrong) :
                  /\ wrong[k][1].term = missed[k].term
                  /\ \E i \in 1..Len(cards) : wrong[k][1] = cards[i]
                  /\ missed[k].mode = mode_name(MODE_Q_TO_TERM) =>
                        wrong[k][2] = missed[k].user_ans
            /\ correct = Len(SelectSeq(GradedRecs, IsCorrectRec))
            /\ correct + Len(wrong) = Len(GradedRecs)
            /\ Len(GradedRecs) <= Len(cards)
            /\ (pc \in ItemPrompts /\ idx = 1) => (correct = 0 /\ wrong = <<>>)

\* The second item of a second session, its first item missed, after a
\* first session that graded an item.
C23_Witness ==
    /\ pc \in ItemPrompts
    /\ sessions = 2
    /\ logStart[1] = 1
    /\ idx = 2
    /\ Len(wrong) = 1
    /\ correct = 0

\* C24: the reveal request of a Term -> Definition item, unless it cancels,
\* leads to the judgment of the same item whatever its definition; a yes or
\* no there grades the item with that answer as its flag and "(knew)" resp.
\* "(unknown)" as its user answer; and every Term -> Definition record of
\* answers.log and of stamp.log holds the sentinel of its flag.
C24_SelfReportGraded ==
    /\ [](\A i \in 1..Len(answersLog) :
             answersLog[i].mode = mode_name(MODE_TERM_TO_DEF) =>
                answersLog[i].user_ans =
                   IF answersLog[i].correct
                   THEN <<40, 107, 110, 101, 119, 41>>
                   ELSE <<40, 117, 110, 107, 110, 111, 119, 110, 41>>)
    /\ [](\A i \in 1..Len(stampLog) :
             stampLog[i].shadow_of.mode = mode_name(MODE_TERM_TO_DEF) =>
                stampLog[i].shadow_of.user_ans =
                   IF stampLog[i].shadow_of.correct
                   THEN <<40, 107, 110, 101, 119, 41>>
                   ELSE <<40, 117, 110, 107, 110, 111, 119, 110, 41>>)
    /\ [][/\ (pc = "reveal" /\ pc' \notin {"reveal", "exited"} /\ ~cancelTyped') =>
                (pc' = "judge" /\ idx' = idx)
          /\ \A s \in Lines :
                (JudgeOn(s) /\ ask_yes_no(s) # "again") =>
                   /\ pc' = "makedirs"
                   /\ graded' = graded + 1
                   /\ rec'.term = cards[idx].term
                   /\ rec'.mode = mode_name(MODE_TERM_TO_DEF)
                   /\ rec'.correct = (ask_yes_no(s) = "yes")
                   /\ rec'.user_ans =
                         IF ask_yes_no(s) = "yes"
                         THEN <<40, 107, 110, 101, 119, 41>>
                         ELSE <<40, 117, 110, 107, 110, 111, 119, 110, 41>>]_vars

\* The card "q", which has no definition, was judged "no" in a
\* Term -> Definition item and is in both logs.
C24_Witness ==
    \E i \in 1..Len(stampLog) :
        /\ stampLog[i].shadow_of = answersLog[i]
        /\ answersLog[i].mode = mode_name(MODE_TERM_TO_DEF)
        /\ answersLog[i].term = <<113>>
        /\ ~answersLog[i].correct
        /\ answersLog[i].user_ans = <<40, 117, 110, 107, 110, 111, 119, 110, 41>>

\* C25: when the line typed as the answer of a Question -> Term item is
\* graded, the user answer of the record handed to log_answer is that line,
\* character for character, and so is the answer kept in the missed list
\* when the item is graded incorrect.
C25_RawAnswerStored ==
    [][\A s \in AnswerLines :
          (AnswerOn(s) /\ pc' = "makedirs") =>
             /\ rec'.user_ans = s
             /\ ~rec'.correct => wrong'[Len(wrong')][2] = s]_vars

\* C26: every deck of the registry is, in every state, the deck its file
\* normalizes to, and once the loading loop is over no step changes the
\* registry, the list of files, the number of files read or the diagnostics.
C26_RegistryUnchanged ==
    /\ [](\A k \in 1..Len(decks) :
             decks[k] = _normalize_deck_from_data(
                           FileAt(decks[k].source_file).data, decks[k].source_file))
    /\ [][pc \notin {"start", "load"} =>
             UNCHANGED <<decks, deck_files, loadIdx, diagnostics, dataDir>>]_vars

\* The second session presents only the third card of a deck of three.
C26_Witness ==
    /\ pc \in ItemPrompts
    /\ sessions = 2
    /\ Len(answersLog) = 1
    /\ Len(decks[deck].cards) = 3
    /\ cards = <<decks[deck].cards[3]>>

\* The deck d has no card with a non-empty term.
NoTermDeck(d) == \A i \in 1..Len(d.cards) : d.cards[i].term = <<>>

\* C27: the step that starts run_quiz on a deck without a card with a
\* non-empty term ends at the "Study another deck?" prompt of main: no count
\* is asked, no item presented, no score printed, neither log changed; and
\* run_quiz is never at a prompt or a log write with such a deck.
C27_NoCardsReturn ==
    /\ [](InRunQuiz => ~NoTermDeck(decks[deck]))
    /\ [][\A s \in Lines :
             (ChooseModeOn(s) /\ InBounds(s, MODE_Q_TO_TERM, MODE_MIXED)
                 /\ NoTermDeck(decks[deck])) =>
                /\ pc' = "again"
                /\ sessions' = sessions + 1
                /\ cards' = <<>> /\ idx' = 0
                /\ ~results'.printed
                /\ UNCHANGED logVars]_vars

\* run_quiz returned on a deck of two cards, both without a term.
C27_Witness ==
    /\ pc = "again"
    /\ sessions = 1
    /\ Len(decks) = 1
    /\ Len(decks[1].cards) = 2
    /\ NoTermDeck(decks[1])
    /\ answersLog = <<>> /\ stampLog = <<>>

(***************************************************************************)
(* A run of main in which the operator answers.                            *)
(***************************************************************************)
\* The judgment of an item read from a line ask_yes_no accepts.
JudgeValid == \E s \in Lines : JudgeOn(s) /\ ask_yes_no(s) # "again"

\* The data directories whose files all load: sessions are what is followed.
LiveDirs == {d \in DataDirs : d.isdir /\ d.entries # {} /\
                              \A e \in d.entries : e.read = "ok" /\ HasSupportedExt(e.name)}

InitLive == InitIn(LiveDirs) /\ call = NoCall

\* input() returns when the operator types a line, and the operator goes on
\* typing at the prompts of a session: a line at the count prompt, at the
\* answer and at the reveal request, and in the end an accepted line at the
\* judgment.  The steps of log_answer are not waits: they run.
SpecLive ==
    /\ InitLive
    /\ [][Next]_vars
    /\ WF_vars(ChooseCount)
    /\ WF_vars(Answer)
    /\ WF_vars(Reveal)
    /\ WF_vars(JudgeValid)
    /\ WF_vars(MakeDirs)
    /\ WF_vars(WritePlain)
    /\ WF_vars(WriteShadow)

\* C28: a call of run_quiz that got past the filter (the deck has a card
\* with a term) reaches its summary, unless the process ends before (an
\* interruption, end of input, a failed log write); the loop is at an item
\* of 1..N all along.
C28_SessionReachesSummary ==
    /\ [](InSession /\ pc # "wait_key" => idx \in 1..Len(cards))
    /\ InRunQuiz ~> (pc = "exited" \/ (pc = "wait_key" /\ results.printed))

\* The summary after both cards of a session were graded.
C28_Witness ==
    /\ pc = "wait_key"
    /\ results.printed
    /\ Len(cards) = 2
    /\ graded = 2

(***************************************************************************)
(* Grading a Question -> Term item correct.                                *)
(***************************************************************************)
\* Lines a learner can type at the answer prompt: up to three of the
\* characters space, Q, Y, q, y.
TypedLines == UNION { [1..n -> {32, 81, 89, 113, 121}] : n \in 0..3 }

\* Lines 279-285 on the line s for the card: the loop goes on to grade the
\* item (line 280 does not break) and is_correct is true.
GradedCorrectOn(s, card) ==
    LET ans == Strip(s)
    IN  Lower(ans) # <<113>> /\ IsCorrect(ans, card.term)

\* C29: at the answer prompt of every Question -> Term item there is a line
\* of input on which the item is graded correct and its record gets the
\* flag 1, also when the term of the card is the cancel token up to case
\* and surrounding whitespace.
C29_EveryCardCanBeCorrect ==
    pc = "answer"
        => \E s \in TypedLines : GradedCorrectOn(s, cards[idx])

=============================================================================
